---- MODULE Spec2Model ----
(***************************************************************************)
(* Feature sources of node-feature-discovery (sources.go, both revisions   *)
(* of the file): cpuidSource, rdtSource, pstateSource and the two          *)
(* networkSource implementations ("network": net.Interfaces + sysfs with   *)
(* first-match break; "netid": /hostsys/class/net with a running total).   *)
(*                                                                         *)
(* The state is the part of the node each Discover reads (files, helper    *)
(* exit status, interface list) and the values returned by the most recent *)
(* Discover call.  File contents are byte sequences (one-character         *)
(* strings); bytes.TrimSpace and strconv.Atoi are modelled on them.        *)
(* A nil slice and an empty slice are both the empty sequence (len = 0).   *)
(***************************************************************************)
EXTENDS Integers, Sequences, FiniteSets, TLC

VARIABLES
    source,        \* Name() of the source under examination
    cpuFeatures,   \* what cpuid.CPU.Features.Strings() reports
    helperOK,      \* helper script -> TRUE iff cmd.Run() returns nil
    noTurbo,       \* ReadFile result of .../intel_pstate/no_turbo
    ifacesErr,     \* TRUE iff net.Interfaces() fails
    ifaces,        \* interfaces of the node with their sysfs attributes
    hostsysErr,    \* TRUE iff ReadDir("/hostsys/class/net") fails
    hostsys,       \* per directory entry: ReadFile result of sriov_numvfs
    called,        \* Discover calls since the node last changed (capped at 2)
    features,      \* feature list returned by the most recent call
    err,           \* error returned by the most recent call
    reads,         \* attribute files read by the most recent call, in order
    panicked,      \* the most recent call aborted with a runtime panic
    prevFeatures,  \* feature list returned by the call before it
    prevErr        \* error returned by the call before it

vars == <<source, cpuFeatures, helperOK, noTurbo, ifacesErr, ifaces,
          hostsysErr, hostsys, called, features, err, reads, panicked,
          prevFeatures, prevErr>>

env == <<cpuFeatures, helperOK, noTurbo, ifacesErr, ifaces, hostsysErr, hostsys>>

----
\* Bounds of the exploration

MaxIfaces == 2      \* interfaces returned by net.Interfaces()
MaxEntries == 3     \* directory entries under /hostsys/class/net

NoError == "nil"

SeqsUpTo(S, n) == UNION {[1..k -> S] : k \in 0..n}

File(b) == [err |-> NoError, bytes |-> b]
Missing == [err |-> "ENOENT", bytes |-> <<>>]

NoTurboFiles ==
    {Missing, File(<<>>), File(<<"0", "\n">>), File(<<"1", "\n">>),
     File(<<"0">>), File(<<"x", "0">>)}

TotalVfsFiles ==
    {Missing, File(<<"0", "\n">>), File(<<"4", "\n">>), File(<<"x", "\n">>),
     File(<<"-", "1", "\n">>)}

NumVfsFiles ==
    {Missing, File(<<"0", "\n">>), File(<<"2", "\n">>), File(<<"2", "x">>)}

HostsysFiles ==
    {Missing, File(<<>>), File(<<"\n">>), File(<<"0", "\n">>),
     File(<<"2", "\n">>), File(<<"-", "3", "\n">>), File(<<"x", "\n">>)}

FlagSets == {{"broadcast"}, {"up", "broadcast"}, {"up", "loopback"}}

Interface == [flags : FlagSets, totalvfs : TotalVfsFiles, numvfs : NumVfsFiles]

Helpers == {"mon-discovery", "l3-alloc-discovery", "l2-alloc-discovery"}

CpuFeatureLists == {<<>>, <<"AVX2">>, <<"SSE2", "AES">>}

Sources == {"cpuid", "rdt", "pstate", "network", "netid"}

----
\* bytes.TrimSpace and strconv.Atoi

IsSpace(c) == c \in {" ", "\n", "\t", "\r"}

RECURSIVE TrimLeft(_)
TrimLeft(s) ==
    IF s # <<>> /\ IsSpace(Head(s)) THEN TrimLeft(Tail(s)) ELSE s

RECURSIVE TrimRight(_)
TrimRight(s) ==
    IF s # <<>> /\ IsSpace(s[Len(s)])
    THEN TrimRight(SubSeq(s, 1, Len(s) - 1))
    ELSE s

TrimSpace(s) == TrimRight(TrimLeft(s))

Digits == <<"0", "1", "2", "3", "4", "5", "6", "7", "8", "9">>

IsDigit(c) == \E d \in 1..10 : Digits[d] = c

DigitVal(c) == (CHOOSE d \in 1..10 : Digits[d] = c) - 1

RECURSIVE Decimal(_)
Decimal(s) ==
    IF s = <<>> THEN 0
    ELSE 10 * Decimal(SubSeq(s, 1, Len(s) - 1)) + DigitVal(s[Len(s)])

Atoi(s) ==
    LET signed == s # <<>> /\ s[1] \in {"+", "-"}
        body   == IF signed THEN Tail(s) ELSE s
    IN  IF body = <<>> \/ \E i \in 1..Len(body) : ~IsDigit(body[i])
        THEN [n |-> 0, err |-> "invalid syntax"]
        ELSE [n |-> IF signed /\ s[1] = "-" THEN 0 - Decimal(body) ELSE Decimal(body),
              err |-> NoError]

----
\* What every Discover returns

Return(f, e, r) == [features |-> f, err |-> e, reads |-> r, panicked |-> FALSE]

Panic == [features |-> <<>>, err |-> NoError, reads |-> <<>>, panicked |-> TRUE]

\* features := []string{} with a value left over from the preceding call
NewFeatures_stale == features

\* features := []string{}
NewFeatures == <<>>

----
\* cpuidSource

cpuidDiscover(cpu) == Return(cpu, NoError, <<>>)

----
\* rdtSource

\* Discover that gives up at the first helper that fails
rdtDiscover_stop(ok) ==
    LET f0 == NewFeatures
    IN  IF ~ok["mon-discovery"] THEN Return(f0, NoError, <<>>)
        ELSE IF ~ok["l3-alloc-discovery"]
             THEN Return(Append(f0, "RDTMON"), NoError, <<>>)
        ELSE IF ~ok["l2-alloc-discovery"]
             THEN Return(f0 \o <<"RDTMON", "RDTL3CA">>, NoError, <<>>)
        ELSE Return(f0 \o <<"RDTMON", "RDTL3CA", "RDTL2CA">>, NoError, <<>>)

rdtDiscover(ok) ==
    LET f0 == NewFeatures
        f1 == IF ok["mon-discovery"] THEN Append(f0, "RDTMON") ELSE f0
        f2 == IF ok["l3-alloc-discovery"] THEN Append(f1, "RDTL3CA") ELSE f1
        f3 == IF ok["l2-alloc-discovery"] THEN Append(f2, "RDTL2CA") ELSE f2
    IN  Return(f3, NoError, <<>>)

----
\* pstateSource

\* the comparison with the sense of the flag inverted
TurboEnabled_inverted(bytes) == bytes[1] = "1"

\* bytes[0] == byte('0')
TurboEnabled(bytes) == bytes[1] = "0"

pstateDiscover(file) ==
    IF file.err # NoError
    THEN Return(<<>>, "can't detect whether turbo boost is enabled", <<>>)
    ELSE IF Len(file.bytes) = 0
    THEN Panic      \* index out of range [0] with length 0
    ELSE IF TurboEnabled(file.bytes)
    THEN Return(Append(NewFeatures, "turbo"), NoError, <<>>)
    ELSE Return(NewFeatures, NoError, <<>>)

----
\* networkSource, Name() = "network"

\* net.Interfaces()
Interfaces == IF ifacesErr THEN [list |-> <<>>, err |-> "netlink"]
              ELSE [list |-> ifaces, err |-> NoError]

\* net.Flags.String(): the names of the set flags in bit order (joined by "|"
\* in the code; no flag name is a substring of another one)
FlagsString(flags) ==
    LET order == <<"up", "broadcast", "loopback", "pointtopoint", "multicast">>
    IN  SelectSeq(order, LAMBDA f : f \in flags)

\* strings.Contains on a flags string
Contains(str, name) == \E k \in 1..Len(str) : str[k] = name

\* the filter without its loopback half
IsCandidate_anyup(netInterface) ==
    Contains(FlagsString(netInterface.flags), "up")

IsCandidate(netInterface) ==
    /\ Contains(FlagsString(netInterface.flags), "up")
    /\ ~Contains(FlagsString(netInterface.flags), "loopback")

\* the loop with the break replaced by falling through to the next interface
RECURSIVE networkScan_nobreak(_, _, _, _)
networkScan_nobreak(netInterfaces, i, feats, rds) ==
    IF i > Len(netInterfaces) THEN [features |-> feats, reads |-> rds]
    ELSE
    LET netInterface == netInterfaces[i]
        rds1 == Append(rds, <<i, "sriov_totalvfs">>)
        rds2 == Append(rds1, <<i, "sriov_numvfs">>)
        t == Atoi(TrimSpace(netInterface.totalvfs.bytes))
        n == Atoi(TrimSpace(netInterface.numvfs.bytes))
        f1 == Append(feats, "sriov")
    IN  IF ~IsCandidate(netInterface)
        THEN networkScan_nobreak(netInterfaces, i + 1, feats, rds)
        ELSE IF netInterface.totalvfs.err # NoError \/ t.err # NoError
        THEN networkScan_nobreak(netInterfaces, i + 1, feats, rds1)
        ELSE IF ~(t.n > 0)
        THEN networkScan_nobreak(netInterfaces, i + 1, feats, rds1)
        ELSE IF netInterface.numvfs.err # NoError \/ n.err # NoError
        THEN networkScan_nobreak(netInterfaces, i + 1, f1, rds2)
        ELSE IF n.n > 0
        THEN networkScan_nobreak(netInterfaces, i + 1,
                                 Append(f1, "sriov-configured"), rds2)
        ELSE networkScan_nobreak(netInterfaces, i + 1, f1, rds2)

\* for _, netInterface := range netInterfaces { ... }
RECURSIVE networkScan(_, _, _, _)
networkScan(netInterfaces, i, feats, rds) ==
    IF i > Len(netInterfaces) THEN [features |-> feats, reads |-> rds]
    ELSE
    LET netInterface == netInterfaces[i]
        rds1 == Append(rds, <<i, "sriov_totalvfs">>)
        rds2 == Append(rds1, <<i, "sriov_numvfs">>)
        t == Atoi(TrimSpace(netInterface.totalvfs.bytes))
        n == Atoi(TrimSpace(netInterface.numvfs.bytes))
        f1 == Append(feats, "sriov")
    IN  IF ~IsCandidate(netInterface)
        THEN networkScan(netInterfaces, i + 1, feats, rds)
        ELSE IF netInterface.totalvfs.err # NoError \/ t.err # NoError
        THEN networkScan(netInterfaces, i + 1, feats, rds1)       \* continue
        ELSE IF ~(t.n > 0)
        THEN networkScan(netInterfaces, i + 1, feats, rds1)
        ELSE IF netInterface.numvfs.err # NoError \/ n.err # NoError
        THEN networkScan(netInterfaces, i + 1, f1, rds2)          \* continue
        ELSE IF n.n > 0
        THEN [features |-> Append(f1, "sriov-configured"), reads |-> rds2]  \* break
        ELSE networkScan(netInterfaces, i + 1, f1, rds2)

\* Discover that swallows the failure of net.Interfaces()
networkDiscover_swallow(listing) ==
    LET r == networkScan(listing.list, 1, NewFeatures, <<>>)
    IN  Return(r.features, NoError, r.reads)

networkDiscover(listing) ==
    IF listing.err # NoError
    THEN Return(<<>>, "can't obtain the network interfaces details", <<>>)
    ELSE LET r == networkScan(listing.list, 1, NewFeatures, <<>>)
         IN  Return(r.features, NoError, r.reads)

----
\* networkSource, Name() = "netid"

\* ioutil.ReadDir("/hostsys/class/net")
ReadDir == IF hostsysErr THEN [list |-> <<>>, err |-> "ENOENT"]
           ELSE [list |-> hostsys, err |-> NoError]

\* the loop leaving at the first entry that has a count
RECURSIVE netidScan_first(_, _, _, _)
netidScan_first(entries, i, total, rds) ==
    IF i > Len(entries) THEN [total |-> total, reads |-> rds]
    ELSE
    LET bytes_received == entries[i]
        rds1 == Append(rds, <<i, "sriov_numvfs">>)
        n == Atoi(TrimSpace(bytes_received.bytes))
    IN  IF bytes_received.err # NoError
        THEN netidScan_first(entries, i + 1, total, rds1)
        ELSE IF Len(bytes_received.bytes) = 0
        THEN netidScan_first(entries, i + 1, total, rds1)
        ELSE IF n.err # NoError
        THEN netidScan_first(entries, i + 1, total, rds1)
        ELSE [total |-> total + n.n, reads |-> rds1]

\* for _, netInterface := range netInterfaces { ... total_num_vfs += n }
RECURSIVE netidScan(_, _, _, _)
netidScan(entries, i, total, rds) ==
    IF i > Len(entries) THEN [total |-> total, reads |-> rds]
    ELSE
    LET bytes_received == entries[i]
        rds1 == Append(rds, <<i, "sriov_numvfs">>)
        n == Atoi(TrimSpace(bytes_received.bytes))
    IN  IF bytes_received.err # NoError
        THEN netidScan(entries, i + 1, total, rds1)               \* continue
        ELSE IF Len(bytes_received.bytes) = 0
        THEN netidScan(entries, i + 1, total, rds1)               \* continue
        ELSE IF n.err # NoError
        THEN netidScan(entries, i + 1, total, rds1)               \* continue
        ELSE netidScan(entries, i + 1, total + n.n, rds1)

netidDiscover(listing) ==
    IF listing.err # NoError
    THEN Return(<<>>, "can't obtain the network interfaces", <<>>)
    ELSE LET r == netidScan(listing.list, 1, 0, <<>>)
         IN  Return(IF r.total > 0 THEN Append(NewFeatures, "SRIOV") ELSE NewFeatures,
                    NoError, r.reads)

----
\* The state machine

Init ==
    /\ source \in Sources
    /\ cpuFeatures \in (IF source = "cpuid" THEN CpuFeatureLists ELSE {<<>>})
    /\ helperOK \in (IF source = "rdt" THEN [Helpers -> BOOLEAN]
                     ELSE {[h \in Helpers |-> FALSE]})
    /\ noTurbo \in (IF source = "pstate" THEN NoTurboFiles ELSE {Missing})
    /\ ifacesErr \in (IF source = "network" THEN BOOLEAN ELSE {FALSE})
    /\ ifaces \in (IF source = "network" THEN SeqsUpTo(Interface, MaxIfaces)
                   ELSE {<<>>})
    /\ hostsysErr \in (IF source = "netid" THEN BOOLEAN ELSE {FALSE})
    /\ hostsys \in (IF source = "netid" THEN SeqsUpTo(HostsysFiles, MaxEntries)
                    ELSE {<<>>})
    /\ called = 0
    /\ features = <<>>
    /\ err = NoError
    /\ reads = <<>>
    /\ panicked = FALSE
    /\ prevFeatures = <<>>
    /\ prevErr = NoError

\* One Discover call of the source under examination returning r
Call(r) ==
    /\ ~panicked
    /\ called' = IF called < 2 THEN called + 1 ELSE 2
    /\ features' = r.features
    /\ err' = r.err
    /\ reads' = r.reads
    /\ panicked' = r.panicked
    /\ prevFeatures' = features
    /\ prevErr' = err
    /\ UNCHANGED <<source, env>>

Discover_cpuid == source = "cpuid" /\ Call(cpuidDiscover(cpuFeatures))

Discover_rdt == source = "rdt" /\ Call(rdtDiscover(helperOK))

Discover_pstate == source = "pstate" /\ Call(pstateDiscover(noTurbo))

Discover_network == source = "network" /\ Call(networkDiscover(Interfaces))

Discover_netid == source = "netid" /\ Call(netidDiscover(ReadDir))

\* The node changes between two calls; what earlier calls returned says
\* nothing about the node any more
Forget ==
    /\ ~panicked
    /\ called' = 0
    /\ features' = <<>>
    /\ err' = NoError
    /\ reads' = <<>>
    /\ prevFeatures' = <<>>
    /\ prevErr' = NoError
    /\ UNCHANGED <<source, panicked>>

HelperChanges ==
    /\ source = "rdt"
    /\ \E h \in Helpers : helperOK' = [helperOK EXCEPT ![h] = ~helperOK[h]]
    /\ Forget
    /\ UNCHANGED <<cpuFeatures, noTurbo, ifacesErr, ifaces, hostsysErr, hostsys>>

NoTurboChanges ==
    /\ source = "pstate"
    /\ \E f \in NoTurboFiles \ {noTurbo} : noTurbo' = f
    /\ Forget
    /\ UNCHANGED <<cpuFeatures, helperOK, ifacesErr, ifaces, hostsysErr, hostsys>>

InterfaceChanges ==
    /\ source = "network"
    /\ \E i \in 1..Len(ifaces) :
         \/ \E f \in FlagSets \ {ifaces[i].flags} :
              ifaces' = [ifaces EXCEPT ![i].flags = f]
         \/ \E f \in TotalVfsFiles \ {ifaces[i].totalvfs} :
              ifaces' = [ifaces EXCEPT ![i].totalvfs = f]
         \/ \E f \in NumVfsFiles \ {ifaces[i].numvfs} :
              ifaces' = [ifaces EXCEPT ![i].numvfs = f]
    /\ Forget
    /\ UNCHANGED <<cpuFeatures, helperOK, noTurbo, ifacesErr, hostsysErr, hostsys>>

HostsysChanges ==
    /\ source = "netid"
    /\ \E i \in 1..Len(hostsys) : \E f \in HostsysFiles \ {hostsys[i]} :
         hostsys' = [hostsys EXCEPT ![i] = f]
    /\ Forget
    /\ UNCHANGED <<cpuFeatures, helperOK, noTurbo, ifacesErr, ifaces, hostsysErr>>

Next ==
    \/ Discover_cpuid
    \/ Discover_rdt
    \/ Discover_pstate
    \/ Discover_network
    \/ Discover_netid
    \/ HelperChanges
    \/ NoTurboChanges
    \/ InterfaceChanges
    \/ HostsysChanges

Spec == Init /\ [][Next]_vars

----
\* Vocabulary of the properties

Tokens(f) == {f[k] : k \in 1..Len(f)}

Occurrences(f, token) == Cardinality({k \in 1..Len(f) : f[k] = token})

RemoveAt(s, i) == SubSeq(s, 1, i - 1) \o SubSeq(s, i + 1, Len(s))

\* A file holds a decimal integer, possibly surrounded by white space
Parses(file) == file.err = NoError /\ Atoi(TrimSpace(file.bytes)).err = NoError

Value(file) == Atoi(TrimSpace(file.bytes)).n

Positive(file) == Parses(file) /\ Value(file) > 0

UpNotLoopback(netInterface) ==
    "up" \in netInterface.flags /\ "loopback" \notin netInterface.flags

Present(netInterface) ==
    UpNotLoopback(netInterface) /\ Positive(netInterface.totalvfs)

Configured(netInterface) ==
    Present(netInterface) /\ Positive(netInterface.numvfs)

RECURSIVE GrandTotal(_)
GrandTotal(entries) ==
    IF entries = <<>> THEN 0
    ELSE (IF Parses(Head(entries)) THEN Value(Head(entries)) ELSE 0)
         + GrandTotal(Tail(entries))

Returned(name) == source = name /\ called > 0 /\ ~panicked

----
\* C1: pstateSource.Discover returns an error when no_turbo cannot be read,
\* exactly ["turbo"] and no error when its first byte is '0', and the empty
\* list and no error when its first byte is any other byte.
C1_PstateByFirstByte ==
    (source = "pstate" /\ called > 0) =>
        /\ noTurbo.err # NoError => err # NoError
        /\ (noTurbo.err = NoError /\ Len(noTurbo.bytes) > 0 /\ noTurbo.bytes[1] = "0")
              => (~panicked /\ features = <<"turbo">> /\ err = NoError)
        /\ (noTurbo.err = NoError /\ Len(noTurbo.bytes) > 0 /\ noTurbo.bytes[1] # "0")
              => (~panicked /\ features = <<>> /\ err = NoError)

C1_Witness ==
    /\ Returned("pstate")
    /\ noTurbo = File(<<"0", "\n">>)
    /\ features = <<"turbo">>

\* C2: rdtSource.Discover returns no error and exactly the tokens of the
\* helpers that exited zero, in the order RDTMON, RDTL3CA, RDTL2CA, whatever
\* the other helpers did.
C2_RdtTokensOfZeroExits ==
    Returned("rdt") =>
        /\ err = NoError
        /\ features =
             (IF helperOK["mon-discovery"] THEN <<"RDTMON">> ELSE <<>>)
             \o (IF helperOK["l3-alloc-discovery"] THEN <<"RDTL3CA">> ELSE <<>>)
             \o (IF helperOK["l2-alloc-discovery"] THEN <<"RDTL2CA">> ELSE <<>>)

C2_Witness ==
    /\ Returned("rdt")
    /\ ~helperOK["mon-discovery"]
    /\ ~helperOK["l3-alloc-discovery"]
    /\ features = <<"RDTL2CA">>

\* C3: when net.Interfaces succeeds, the result of the "network" source holds
\* "sriov" iff some up, non-loopback interface has sriov_totalvfs > 0, and
\* "sriov-configured" iff some such interface also has sriov_numvfs > 0;
\* down or loopback interfaces contribute nothing.
C3_NetworkTokens ==
    (Returned("network") /\ ~ifacesErr) =>
        /\ err = NoError
        /\ "sriov" \in Tokens(features)
             <=> \E i \in 1..Len(ifaces) : Present(ifaces[i])
        /\ "sriov-configured" \in Tokens(features)
             <=> \E i \in 1..Len(ifaces) : Configured(ifaces[i])
        /\ Tokens(features) \subseteq {"sriov", "sriov-configured"}
        /\ \A k \in 1..Len(reads) : UpNotLoopback(ifaces[reads[k][1]])

C3_Witness ==
    /\ Returned("network")
    /\ ~ifacesErr
    /\ Len(ifaces) = 2
    /\ ~UpNotLoopback(ifaces[1])
    /\ Positive(ifaces[1].totalvfs) /\ Positive(ifaces[1].numvfs)
    /\ Present(ifaces[2]) /\ ~Configured(ifaces[2])
    /\ features = <<"sriov">>

\* C4: the feature list of the "network" source holds "sriov" at most once,
\* however many scanned interfaces report sriov_totalvfs > 0.
C4_SriovAtMostOnce ==
    Returned("network") => Occurrences(features, "sriov") <= 1

\* C5: when ReadDir succeeds, the "netid" source reads sriov_numvfs of every
\* entry, and returns no error and exactly ["SRIOV"] if the sum of the counts
\* that parse is > 0, and the empty list otherwise.
C5_NetidGrandTotal ==
    (Returned("netid") /\ ~hostsysErr) =>
        /\ err = NoError
        /\ reads = [k \in 1..Len(hostsys) |-> <<k, "sriov_numvfs">>]
        /\ features = IF GrandTotal(hostsys) > 0 THEN <<"SRIOV">> ELSE <<>>

C5_Witness ==
    /\ Returned("netid")
    /\ ~hostsysErr
    /\ Len(hostsys) = 3
    /\ Positive(hostsys[1])
    /\ ~Parses(hostsys[2])
    /\ Positive(hostsys[3])
    /\ features = <<"SRIOV">>

\* C6: in both network probes an interface whose virtual-function attribute
\* (sriov_totalvfs for "network", sriov_numvfs for "netid") is unreadable,
\* empty, non-numeric or not a non-negative integer is skipped: the result
\* is no error and the feature list of the same interfaces without it.
C6_BadAttributeSkipped ==
    /\ (Returned("network") /\ ~ifacesErr) =>
          \A i \in 1..Len(ifaces) :
             (~Parses(ifaces[i].totalvfs) \/ Value(ifaces[i].totalvfs) < 0) =>
                /\ err = NoError
                /\ features =
                     networkDiscover([list |-> RemoveAt(ifaces, i),
                                      err |-> NoError]).features
    /\ (Returned("netid") /\ ~hostsysErr) =>
          \A i \in 1..Len(hostsys) :
             (~Parses(hostsys[i]) \/ Value(hostsys[i]) < 0) =>
                /\ err = NoError
                /\ features =
                     netidDiscover([list |-> RemoveAt(hostsys, i),
                                    err |-> NoError]).features

\* C7: whenever Discover returns an error the returned list is empty; a
\* failing net.Interfaces or ReadDir makes the network probe return an error,
\* no features, and read no attribute file.
C7_ErrorMeansNoFeatures ==
    (called > 0 /\ ~panicked) =>
        /\ err # NoError => features = <<>>
        /\ ((source = "network" /\ ifacesErr) \/ (source = "netid" /\ hostsysErr))
              => (err # NoError /\ features = <<>> /\ reads = <<>>)

C7_Witness ==
    /\ Returned("network")
    /\ ifacesErr
    /\ Len(ifaces) = 2
    /\ Configured(ifaces[1])
    /\ err # NoError

\* C8: two Discover calls in immediate succession on an unchanged node
\* return the same feature list and the same error.
C8_RepeatedCallSameResult ==
    (called = 2 /\ ~panicked) => (features = prevFeatures /\ err = prevErr)

C8_Witness ==
    /\ called = 2
    /\ source = "network"
    /\ features = <<"sriov", "sriov", "sriov-configured">>
    /\ prevFeatures = features

\* C9: the "network" source reads interfaces in list order and, once an
\* interface with sriov_numvfs > 0 is found, reads nothing of later
\* interfaces and appends nothing more: "sriov-configured" occurs at most
\* once, last in the list, right after the "sriov" of the same interface.
C9_FirstMatchShortCircuit ==
    (Returned("network") /\ ~ifacesErr) =>
        /\ \A a, b \in 1..Len(reads) : a < b => reads[a][1] <= reads[b][1]
        /\ \A i \in 1..Len(ifaces) :
             (Configured(ifaces[i]) /\ \A j \in 1..(i - 1) : ~Configured(ifaces[j])) =>
                /\ \A k \in 1..Len(reads) : reads[k][1] <= i
                /\ Len(features) >= 2
                /\ features[Len(features)] = "sriov-configured"
                /\ features[Len(features) - 1] = "sriov"
                /\ Occurrences(features, "sriov")
                     = Cardinality({j \in 1..i : Present(ifaces[j])})
        /\ Occurrences(features, "sriov-configured") <= 1
        /\ \A k \in 1..Len(features) :
             features[k] = "sriov-configured" =>
                (k = Len(features) /\ k > 1 /\ features[k - 1] = "sriov")

C9_Witness ==
    /\ Returned("network")
    /\ ~ifacesErr
    /\ Len(ifaces) = 2
    /\ Configured(ifaces[1])
    /\ Configured(ifaces[2])
    /\ features = <<"sriov", "sriov-configured">>
    /\ reads = <<<<1, "sriov_totalvfs">>, <<1, "sriov_numvfs">>>>

\* C10: pstateSource.Discover never aborts abnormally, whatever the readable
\* content of no_turbo is, the empty content included.
C10_PstateNeverPanics ==
    source = "pstate" => ~panicked

====
